---- MODULE Spec2Model ----
(***************************************************************************)
(* Model of the acoustic-camera validation scripts:                        *)
(*   stimuliSynth.py          generate_exponential_sweep,                  *)
(*                            generate_bandlimited_noise                   *)
(*   acousticVisualization.py select_random_files, the __main__ loop       *)
(*                                                                         *)
(* Samples are IEEE doubles in the code.  Here a sample is an extended     *)
(* rational [n, d]: d > 0 is the finite value n/d in lowest terms, d = 0   *)
(* is +inf (n = 1), -inf (n = -1) or NaN (n = 0).  Multiplication and      *)
(* division follow the IEEE rules for the special values (x/0, inf*0).     *)
(* Durations are multiples of 1/DurDen seconds, so that duration *         *)
(* samplerate can be a non-integer.                                        *)
(***************************************************************************)
EXTENDS Integers, Sequences, FiniteSets, TLC

(* ------------------------------ bounds --------------------------------- *)
\* sample rates are 1..MaxRate (samples per second)
MaxRate == 2
\* durations and fade times are k/DurDen seconds
DurDen == 2
\* duration = dnum/DurDen with dnum in 0..MaxDurNum
MaxDurNum == 5
\* fade_time = fnum/DurDen with fnum in 0..MaxFadeNum
MaxFadeNum == 2
\* seeds given to the random source are 0..MaxSeed
MaxSeed == 1
\* a folder holds at most MaxEntries entries, named 1..MaxEntries
MaxEntries == 3
\* a loaded recording holds 1..MaxLen samples
MaxLen == 3

VARIABLES
  \* stimuliSynth.py
  fn,            \* the generator called last: "none", "sweep" or "noise"
  par,           \* the arguments of that call
  res,           \* what that call did: outcome ("none", "returned",
                 \* "ValueError"), pre (the buffer before the fade),
                 \* fade_samples, faded (whether the fade branch was taken),
                 \* mid (the buffer after the fade), out (the returned buffer)
  rng_state,     \* state of numpy's global random source
  seeded,        \* the seed set since the last draw, or NoSeed
  seed_used,     \* the seed the last noise call started from, or NoSeed
  prev,          \* for each seed, outcome and buffer of the latest earlier
                 \* noise call that started from it
  \* acousticVisualization.py
  vpc,           \* "start", "loop", "loaded", "done", "aborted", "selected"
  idx,           \* position in random_files of the file being processed
  y,             \* the loaded recording
  shown,         \* the outputs produced so far, in order
  all_entries,   \* os.listdir(folder_path)
  isfile,        \* the entries that are regular files
  number_of_files,
  selected_files,
  sel_outcome    \* "none", "returned" or "ValueError"

synthVars == <<fn, par, res, rng_state, seeded, seed_used, prev>>
visVars == <<vpc, idx, y, shown, all_entries, isfile, number_of_files, selected_files, sel_outcome>>
vars == <<synthVars, visVars>>

(* --------------------------- extended rationals ------------------------ *)
Abs(x) == IF x < 0 THEN -x ELSE x

Sgn(x) == IF x < 0 THEN -1 ELSE IF x = 0 THEN 0 ELSE 1

RECURSIVE GCD(_, _)
GCD(a, b) == IF b = 0 THEN a ELSE GCD(b, a % b)

\* the finite value n/d (d # 0) in lowest terms with a positive denominator
Rat(n, d) ==
  LET g == GCD(Abs(n), Abs(d))
  IN  [n |-> (Sgn(d) * n) \div g, d |-> Abs(d) \div g]

Zero == [n |-> 0, d |-> 1]
One == [n |-> 1, d |-> 1]
NaN == [n |-> 0, d |-> 0]
Inf(s) == [n |-> s, d |-> 0]

IsNaN(x) == x.d = 0 /\ x.n = 0
IsFinite(x) == x.d > 0

\* IEEE multiplication: NaN propagates, inf * 0 = NaN
Mul(a, b) ==
  IF IsNaN(a) \/ IsNaN(b) THEN NaN
  ELSE IF a.d = 0 \/ b.d = 0
       THEN IF a.n = 0 \/ b.n = 0 THEN NaN ELSE Inf(Sgn(a.n) * Sgn(b.n))
       ELSE Rat(a.n * b.n, a.d * b.d)

\* IEEE division as numpy performs it (a warning, no exception):
\* x/0 = +-inf for x # 0, 0/0 = NaN, inf/inf = NaN, x/inf = 0
Div(a, b) ==
  IF IsNaN(a) \/ IsNaN(b) THEN NaN
  ELSE IF b.d = 0 THEN (IF a.d = 0 THEN NaN ELSE Zero)
  ELSE IF b.n = 0 THEN (IF a.n = 0 THEN NaN ELSE Inf(Sgn(a.n)))
  ELSE IF a.d = 0 THEN Inf(Sgn(a.n) * Sgn(b.n))
  ELSE Rat(a.n * b.d, a.d * b.n)

Sub(a, b) ==
  IF ~IsFinite(a) \/ ~IsFinite(b) THEN NaN
  ELSE Rat(a.n * b.d - b.n * a.d, a.d * b.d)

AbsR(x) == [n |-> Abs(x.n), d |-> x.d]

\* a <= b for finite a, b
Leq(a, b) == a.n * b.d <= b.n * a.d

Add(a, b) ==
  IF ~IsFinite(a) \/ ~IsFinite(b) THEN NaN
  ELSE Rat(a.n * b.d + b.n * a.d, a.d * b.d)

\* int(x) of Python for a finite x >= 0: truncation toward zero
Trunc(x) == x.n \div x.d

FromInt(k) == [n |-> k, d |-> 1]

(* ------------------------------- numpy --------------------------------- *)
\* np.linspace(start, stop, num): num points, both ends included; a single
\* point is start
linspace(start, stop, num) ==
  [i \in 1..num |->
     IF num = 1 THEN start
     ELSE IF i = num THEN stop
     ELSE Add(start, Mul(FromInt(i - 1), Div(Sub(stop, start), FromInt(num - 1))))]

\* np.linspace(start, stop, num, endpoint=False)
linspace_open(start, stop, num) ==
  [i \in 1..num |->
     Add(start, Mul(FromInt(i - 1), Div(Sub(stop, start), FromInt(num))))]

\* The transcendental functions are modelled by what decides the outcome:
\* their exact special values (log 1 = 0, exp 0 - 1 = 0, sin 0 = 0) and the
\* IEEE propagation of inf and NaN.  Elsewhere log and exp - 1 keep the sign
\* of the true value, and sin takes a value of SinVals supplied by the caller.
SinVals == {Rat(-1, 1), Zero, Rat(1, 2)}

\* np.log(x) for x > 0: zero exactly at 1, negative below, positive above
Log(x) == IF ~IsFinite(x) THEN x ELSE Sub(x, One)

\* np.exp(x) - 1
Expm1(x) == IF IsNaN(x) THEN NaN ELSE IF x.d = 0 THEN (IF x.n > 0 THEN x ELSE Rat(-1, 1)) ELSE x

\* np.sin(x); v is the value of the sine when x is finite and nonzero
Sin(x, v) == IF ~IsFinite(x) THEN NaN ELSE IF x.n = 0 THEN Zero ELSE v

TwoPi == Rat(44, 7)

(* --------------------- generate_exponential_sweep ---------------------- *)
\* round(x) of Python for a finite x >= 0: nearest integer, ties to even
PyRound(x) ==
  LET q == x.n \div x.d
      r == x.n % x.d
  IN  IF 2 * r < x.d THEN q
      ELSE IF 2 * r > x.d THEN q + 1
      ELSE IF q % 2 = 0 THEN q ELSE q + 1

\* SweepLen with a fault injected: the length is rounded to nearest instead of truncated
SweepLen_round(duration, samplerate) == PyRound(Mul(FromInt(samplerate), duration))

\* len(t): int(samplerate*duration)
SweepLen(duration, samplerate) == Trunc(Mul(FromInt(samplerate), duration))

\* phase at time t: K = duration*f_start/log(f_end/f_start),
\* L = log(f_end/f_start), phase = 2*pi*K*(exp(L*t/duration) - 1)
SweepPhase(f_start, f_end, duration, t) ==
  LET K == Div(Mul(duration, FromInt(f_start)), Log(Div(FromInt(f_end), FromInt(f_start))))
      L == Log(Div(FromInt(f_end), FromInt(f_start)))
  IN  Mul(Mul(TwoPi, K), Expm1(Div(Mul(L, t), duration)))

\* sweep = np.sin(phase) over t = linspace(0, duration, n, endpoint=False)
SweepSignal(f_start, f_end, duration, samplerate, sinv) ==
  LET n == SweepLen(duration, samplerate)
      t == linspace_open(Zero, duration, n)
  IN  [i \in 1..n |-> Sin(SweepPhase(f_start, f_end, duration, t[i]), sinv[i])]

\* fade_samples = int(fade_time * samplerate)
SweepFadeSamples(fade_time, samplerate) == Trunc(Mul(fade_time, FromInt(samplerate)))

\* if fade_samples > 0 and 2*fade_samples < len(sweep)
SweepFadeCond(fade_samples, n) == fade_samples > 0 /\ 2 * fade_samples < n

\* SweepFade with a fault injected: the fade-in slice is one sample too long
SweepFade_wide(sweep, fade_samples) ==
  LET n == Len(sweep)
      fade_in == linspace(Zero, One, fade_samples)
      fade_out == linspace(One, Zero, fade_samples)
      s1 == [i \in 1..n |->
               IF i <= fade_samples THEN Mul(sweep[i], fade_in[i])
               ELSE IF i = fade_samples + 1 THEN Mul(sweep[i], fade_in[1])
               ELSE sweep[i]]
  IN  [i \in 1..n |->
         IF i > n - fade_samples THEN Mul(s1[i], fade_out[i - (n - fade_samples)]) ELSE s1[i]]

\* sweep[:fade_samples] *= fade_in ; sweep[-fade_samples:] *= fade_out
SweepFade(sweep, fade_samples) ==
  LET n == Len(sweep)
      fade_in == linspace(Zero, One, fade_samples)
      fade_out == linspace(One, Zero, fade_samples)
      s1 == [i \in 1..n |-> IF i <= fade_samples THEN Mul(sweep[i], fade_in[i]) ELSE sweep[i]]
  IN  [i \in 1..n |->
         IF i > n - fade_samples THEN Mul(s1[i], fade_out[i - (n - fade_samples)]) ELSE s1[i]]

\* the whole function; pre, fade_samples and faded are kept beside the
\* returned buffer out
generate_exponential_sweep(f_start, f_end, duration, samplerate, fade_time, sinv) ==
  LET sweep == SweepSignal(f_start, f_end, duration, samplerate, sinv)
      fade_samples == SweepFadeSamples(fade_time, samplerate)
      cond == SweepFadeCond(fade_samples, Len(sweep))
      faded_sweep == IF cond THEN SweepFade(sweep, fade_samples) ELSE sweep
  IN  [outcome |-> "returned", pre |-> sweep, fade_samples |-> fade_samples,
       faded |-> cond, mid |-> faded_sweep, out |-> faded_sweep]

(* --------------------- generate_bandlimited_noise ---------------------- *)
\* The global random source of numpy: a deterministic generator whose
\* output is a function of its state alone.  Its state space is 0..RngMod-1.
RngMod == 2 ^ 3

RngStep(r) == (5 * r + 3) % RngMod

\* the standard-normal sample drawn in state r
RngSample(r) == FromInt((r % 3) - 1)

\* Normal with a fault injected: the samples come from a generator of the function's
\* own, which continues from where the last call left it whatever the seed
RECURSIVE NormalFrom(_, _)
NormalFrom(r, n) ==
  IF n = 0 THEN [x |-> << >>, rng |-> r]
  ELSE LET rest == NormalFrom(RngStep(r), n - 1)
       IN  [x |-> <<RngSample(RngStep(r))>> \o rest.x, rng |-> rest.rng]

Normal_own(r, n) == NormalFrom(IF fn = "noise" THEN res.rng ELSE r, n)

\* np.random.normal(0, 1, n) from state r: the samples and the state left
RECURSIVE Normal(_, _)
Normal(r, n) ==
  IF n = 0 THEN [x |-> << >>, rng |-> r]
  ELSE LET rest == Normal(RngStep(r), n - 1)
       IN  [x |-> <<RngSample(RngStep(r))>> \o rest.x, rng |-> rest.rng]

\* N = int(duration * samplerate)
NoiseLen(duration, samplerate) == Trunc(Mul(duration, FromInt(samplerate)))

\* butter(filter_order, [f_low, f_high], btype='band', output='sos'):
\* filter_order second-order sections.  Each section is a band-pass biquad
\* with zeros at DC and at Nyquist; its gain grows with the bandwidth.
butter(filter_order, f_low, f_high) ==
  [k \in 1..filter_order |->
     [b0 |-> FromInt(f_high - f_low), b1 |-> Zero, b2 |-> FromInt(f_low - f_high),
      a1 |-> Zero, a2 |-> Zero]]

\* one second-order section, zero initial state:
\* y[i] = b0 x[i] + b1 x[i-1] + b2 x[i-2] - a1 y[i-1] - a2 y[i-2]
RECURSIVE BiquadAt(_, _, _)
BiquadAt(sec, x, i) ==
  IF i < 1 THEN Zero
  ELSE LET xm(k) == IF k < 1 THEN Zero ELSE x[k]
           ff == Add(Mul(sec.b0, x[i]), Add(Mul(sec.b1, xm(i - 1)), Mul(sec.b2, xm(i - 2))))
           fb == IF sec.a1 = Zero /\ sec.a2 = Zero THEN Zero
                 ELSE Add(Mul(sec.a1, BiquadAt(sec, x, i - 1)), Mul(sec.a2, BiquadAt(sec, x, i - 2)))
       IN  Sub(ff, fb)

\* sosfilt(sos, x): the sections in cascade
RECURSIVE sosfilt(_, _)
sosfilt(sos, x) ==
  IF sos = << >> THEN x
  ELSE sosfilt(Tail(sos), [i \in 1..Len(x) |-> BiquadAt(Head(sos), x, i)])

\* fade_samples = int(fade_time * samplerate)
NoiseFadeSamples(fade_time, samplerate) == Trunc(Mul(fade_time, FromInt(samplerate)))

\* NoiseFadeCond with a fault injected: the comparison is not strict
NoiseFadeCond_inclusive(fade_samples, n) == fade_samples > 0 /\ 2 * fade_samples <= n

\* if fade_samples > 0 and 2 * fade_samples < len(filtered_noise)
NoiseFadeCond(fade_samples, n) == fade_samples > 0 /\ 2 * fade_samples < n

\* filtered_noise[:fade_samples] *= fade_in ; filtered_noise[-fade_samples:] *= fade_out
NoiseFade(filtered_noise, fade_samples) ==
  LET n == Len(filtered_noise)
      fade_in == linspace(Zero, One, fade_samples)
      fade_out == linspace(One, Zero, fade_samples)
      s1 == [i \in 1..n |->
               IF i <= fade_samples THEN Mul(filtered_noise[i], fade_in[i]) ELSE filtered_noise[i]]
  IN  [i \in 1..n |->
         IF i > n - fade_samples THEN Mul(s1[i], fade_out[i - (n - fade_samples)]) ELSE s1[i]]

\* np.max(np.abs(x)) of a non-empty x
Peak(x) ==
  LET a == [i \in 1..Len(x) |-> AbsR(x[i])]
  IN  CHOOSE m \in {a[i] : i \in 1..Len(x)} : \A i \in 1..Len(x) : Leq(a[i], m)

\* Normalize with a fault injected: the 0.9 scale is left out
Normalize_unscaled(x, peak) ==
  IF peak.n > 0 THEN [i \in 1..Len(x) |-> Div(x[i], peak)] ELSE x

\* if peak > 0: filtered_noise = 0.9 * (filtered_noise / peak)
Normalize(x, peak) ==
  IF peak.n > 0 THEN [i \in 1..Len(x) |-> Mul(Rat(9, 10), Div(x[i], peak))] ELSE x

\* the whole function, from the random source in state rng.  np.max of an
\* empty array raises ValueError.
generate_bandlimited_noise(duration, samplerate, f_low, f_high, fade_time, filter_order, rng) ==
  LET N == NoiseLen(duration, samplerate)
      noise == Normal(rng, N)
      sos == butter(filter_order, f_low, f_high)
      filtered_noise == sosfilt(sos, noise.x)
      fade_samples == NoiseFadeSamples(fade_time, samplerate)
      cond == NoiseFadeCond(fade_samples, Len(filtered_noise))
      fadedbuf == IF cond THEN NoiseFade(filtered_noise, fade_samples) ELSE filtered_noise
  IN  IF Len(fadedbuf) = 0
      THEN [outcome |-> "ValueError", pre |-> filtered_noise, fade_samples |-> fade_samples,
            faded |-> cond, mid |-> fadedbuf, out |-> << >>, rng |-> noise.rng]
      ELSE [outcome |-> "returned", pre |-> filtered_noise, fade_samples |-> fade_samples,
            faded |-> cond, mid |-> fadedbuf, out |-> Normalize(fadedbuf, Peak(fadedbuf)),
            rng |-> noise.rng]

(* ------------------------- stimuliSynth: driver ------------------------ *)
\* no seed: the random source was not seeded, or has been drawn from since
NoSeed == 0 - 1

NoResult ==
  [outcome |-> "none", pre |-> << >>, fade_samples |-> 0, faded |-> FALSE, mid |-> << >>,
   out |-> << >>]

NoCall == [outcome |-> "none", out |-> << >>]

\* frequencies in Hz and Butterworth orders
Freqs == {1, 2}
Orders == {1, 2}

Durations == {Rat(k, DurDen) : k \in 0..MaxDurNum}
FadeTimes == {Rat(k, DurDen) : k \in 0..MaxFadeNum}

SweepPars ==
  [f_start : Freqs, f_end : Freqs, duration : Durations,
   samplerate : 1..MaxRate, fade_time : FadeTimes]

\* the cutoffs satisfy the filter design's precondition f_low < f_high
NoisePars ==
  {p \in [duration : Durations, samplerate : 1..MaxRate, f_low : Freqs,
          f_high : Freqs, fade_time : FadeTimes, filter_order : Orders] :
     p.f_low < p.f_high}

InitSynth ==
  /\ fn = "none"
  /\ par = [duration |-> Zero]
  /\ res = NoResult
  /\ rng_state = 0
  /\ seeded = NoSeed
  /\ seed_used = NoSeed
  /\ prev = [s \in 0..MaxSeed |-> NoCall]

\* one call of generate_exponential_sweep; sinv supplies the sine values
CallSweep ==
  /\ fn = "none"
  /\ \E p \in SweepPars :
       \E sinv \in [1..SweepLen(p.duration, p.samplerate) -> SinVals] :
         /\ fn' = "sweep"
         /\ par' = p
         /\ res' = generate_exponential_sweep(p.f_start, p.f_end, p.duration,
                                              p.samplerate, p.fade_time, sinv)
  /\ UNCHANGED <<rng_state, seeded, seed_used, prev, visVars>>

\* the random source takes its state from the operating system's entropy
\* when numpy is imported, before any call
SeedFromEntropy ==
  /\ fn = "none"
  /\ seeded = NoSeed
  /\ rng_state' \in 0..(RngMod - 1)
  /\ seeded' = NoSeed
  /\ UNCHANGED <<fn, par, res, seed_used, prev, visVars>>

\* np.random.seed(s)
Seed ==
  /\ fn # "sweep"
  /\ \E s \in 0..MaxSeed :
       /\ rng_state' = s % RngMod
       /\ seeded' = s
  /\ UNCHANGED <<fn, par, res, seed_used, prev, visVars>>

\* one call of generate_bandlimited_noise; the calls of one run take the
\* same arguments
CallNoise ==
  /\ fn # "sweep"
  /\ \E p \in NoisePars :
       /\ fn = "noise" => p = par
       /\ fn' = "noise"
       /\ par' = p
       /\ res' = generate_bandlimited_noise(p.duration, p.samplerate, p.f_low, p.f_high,
                                            p.fade_time, p.filter_order, rng_state)
  /\ rng_state' = res'.rng
  /\ seeded' = IF Len(res'.pre) = 0 THEN seeded ELSE NoSeed
  /\ seed_used' = seeded
  /\ prev' = IF fn = "noise" /\ seed_used # NoSeed
             THEN [prev EXCEPT ![seed_used] = [outcome |-> res.outcome, out |-> res.out]]
             ELSE prev
  /\ UNCHANGED visVars

(* --------------------- acousticVisualization ----------------------- *)
\* the five names of random_files
NumFiles == 5

RECURSIVE Perms(_)
\* the orders in which os.listdir can return the set S of names
Perms(S) ==
  IF S = {} THEN {<< >>}
  ELSE UNION {{<<x>> \o q : q \in Perms(S \ {x})} : x \in S}

\* FilterFiles with a fault injected: the isfile filter is left out
FilterFiles_all(entries, regular) == entries

\* files = [entry for entry in all_entries if os.path.isfile(...)]
FilterFiles(entries, regular) == SelectSeq(entries, LAMBDA e : e \in regular)

\* random.sample(population, k) for 0 <= k <= len(population): the
\* elements at k distinct positions, in any order
Sample(population, k) ==
  {[i \in 1..k |-> population[q[i]]] :
     q \in {q \in [1..k -> 1..Len(population)] : \A i, j \in 1..k : i # j => q[i] # q[j]}}

\* the outcomes of select_random_files; random.sample raises ValueError
\* for a negative count
select_random_files(entries, regular, n) ==
  LET files == FilterFiles(entries, regular)
  IN  IF n > Len(files) THEN {[outcome |-> "ValueError", files |-> << >>]}
      ELSE IF n < 0 THEN {[outcome |-> "ValueError", files |-> << >>]}
      ELSE {[outcome |-> "returned", files |-> f] : f \in Sample(files, n)}

Recordings == UNION {[1..k -> {-1, 0, 1}] : k \in 1..MaxLen}

InitVis ==
  /\ vpc = "start"
  /\ idx = 0
  /\ y = << >>
  /\ shown = << >>
  /\ all_entries = << >>
  /\ isfile = {}
  /\ number_of_files = 0
  /\ selected_files = << >>
  /\ sel_outcome = "none"

\* a call of select_random_files on some folder
SelectRandomFiles ==
  /\ vpc = "start"
  /\ \E S \in SUBSET (1..MaxEntries) :
       \E entries \in Perms(S) :
         \E regular \in SUBSET S :
           \E n \in (-1)..(MaxEntries + 1) :
             \E r \in select_random_files(entries, regular, n) :
               /\ all_entries' = entries
               /\ isfile' = regular
               /\ number_of_files' = n
               /\ selected_files' = r.files
               /\ sel_outcome' = r.outcome
  /\ vpc' = "selected"
  /\ UNCHANGED <<idx, y, shown, synthVars>>

\* the script is run: random_files is set and the loop begins
MainStart ==
  /\ vpc = "start"
  /\ vpc' = "loop"
  /\ idx' = 1
  /\ UNCHANGED <<y, shown, all_entries, isfile, number_of_files, selected_files, sel_outcome,
                 synthVars>>

\* y, sr = librosa.load(audio_path, sr=None)
Load ==
  /\ vpc = "loop"
  /\ \E rec \in Recordings : y' = rec
  /\ vpc' = "loaded"
  /\ UNCHANGED <<idx, shown, all_entries, isfile, number_of_files, selected_files, sel_outcome,
                 synthVars>>

\* librosa.load raises (the file is missing or unreadable): the script ends
LoadFails ==
  /\ vpc = "loop"
  /\ vpc' = "aborted"
  /\ UNCHANGED <<idx, y, shown, all_entries, isfile, number_of_files, selected_files,
                 sel_outcome, synthVars>>

\* the body of the loop after the load: the spectrogram figure is computed
\* and shown; every other output is commented out
PlotSpectrogram ==
  /\ vpc = "loaded"
  /\ shown' = Append(shown, [file |-> idx, kind |-> "spectrogram"])
  /\ idx' = idx + 1
  /\ vpc' = IF idx = NumFiles THEN "done" ELSE "loop"
  /\ UNCHANGED <<y, all_entries, isfile, number_of_files, selected_files, sel_outcome,
                 synthVars>>

(* --------------------------- specifications ---------------------------- *)
Init == InitSynth /\ InitVis

\* stimuliSynth.py
Next == CallSweep \/ SeedFromEntropy \/ Seed \/ CallNoise

Spec == Init /\ [][Next]_vars

\* generate_exponential_sweep alone
SpecSweep == Init /\ [][CallSweep]_vars

\* generate_bandlimited_noise and the random source alone
NextNoise == SeedFromEntropy \/ Seed \/ CallNoise

SpecNoise == Init /\ [][NextNoise]_vars

\* acousticVisualization.py
NextVis == SelectRandomFiles \/ MainStart \/ Load \/ LoadFails \/ PlotSpectrogram

SpecVis == Init /\ [][NextVis]_vars

(* ------------------------------ properties ----------------------------- *)
Product(p) == Mul(FromInt(p.samplerate), p.duration)

Returned == res.outcome = "returned"

\* C1 as stated: for every positive duration the sweep buffer holds
\* round(duration*samplerate) samples.
C1_LenIsRound ==
  (fn = "sweep" /\ par.duration.n > 0) => Len(res.out) = PyRound(Product(par))

\* C1 (amended): for every positive duration the sweep buffer holds
\* int(samplerate*duration) samples, the product truncated toward zero:
\* len <= samplerate*duration < len + 1.
C1_LenIsTrunc ==
  (fn = "sweep" /\ par.duration.n > 0) =>
     /\ Returned
     /\ Len(res.out) * Product(par).d <= Product(par).n
     /\ Product(par).n < (Len(res.out) + 1) * Product(par).d

\* a sweep whose duration*samplerate is k + 1/2 or more, not an integer
C1_Witness ==
  /\ fn = "sweep"
  /\ par.duration.n > 0
  /\ Len(res.out) >= 1
  /\ 2 * (Product(par).n % Product(par).d) >= Product(par).d

\* C2 as stated: in both generators, whenever the fade is applied (for every
\* fade_samples > 0, fade_samples = 1 included) the first and the last
\* sample of the returned buffer are zero.
C2_FadedEndsAreZero ==
  (fn \in {"sweep", "noise"} /\ Returned /\ res.faded) =>
     /\ res.out[1] = Zero
     /\ res.out[Len(res.out)] = Zero

AllWithin(x, bound) == \A i \in 1..Len(x) : IsFinite(x[i]) /\ Leq(AbsR(x[i]), bound)

PeakIs(x, bound) == AllWithin(x, bound) /\ \E i \in 1..Len(x) : AbsR(x[i]) = bound

\* C3 as stated: whenever the filtered noise before the fade holds a nonzero
\* sample, the returned buffer has peak exactly 0.9 and lies in [-0.9, 0.9].
C3_PeakWhenFilteredNonzero ==
  (fn = "noise" /\ Returned /\ \E i \in 1..Len(res.pre) : res.pre[i] # Zero) =>
     PeakIs(res.out, Rat(9, 10))

\* C3 (amended): whenever the buffer after the fade holds a nonzero sample,
\* the returned buffer has peak exactly 0.9 and lies in [-0.9, 0.9];
\* otherwise (the peak is zero) normalization is skipped and the buffer is
\* returned as it is.
C3_PeakWhenFadedNonzero ==
  (fn = "noise" /\ Returned) =>
     IF \E i \in 1..Len(res.mid) : res.mid[i] # Zero
     THEN PeakIs(res.out, Rat(9, 10))
     ELSE res.out = res.mid

\* a faded noise burst with a nonzero sample left, whose peak was not 0.9
\* before normalization
C3_Witness ==
  /\ fn = "noise"
  /\ Returned
  /\ res.faded
  /\ \E i \in 1..Len(res.mid) : res.mid[i] # Zero
  /\ ~PeakIs(res.mid, Rat(9, 10))

\* C4 as stated: generate_exponential_sweep with f_end = f_start ends in an
\* error and returns no buffer.
C4_EqualFrequenciesRejected ==
  (fn = "sweep" /\ par.f_end = par.f_start) => ~Returned

\* C5 as stated: in both generators the fade is applied exactly when
\* fade_samples > 0 and 2*fade_samples <= len, the case 2*fade_samples = len
\* included.
C5_FadeIffNotLonger ==
  fn \in {"sweep", "noise"} =>
     (res.faded <=> (res.fade_samples > 0 /\ 2 * res.fade_samples <= Len(res.pre)))

\* C5 (amended): in both generators the fade is applied exactly when
\* fade_samples > 0 and 2*fade_samples < len; it is skipped when
\* 2*fade_samples = len.  A skipped fade leaves the buffer as it was, an
\* applied one multiplies the first sample by 0.
C5_FadeIffShorter ==
  fn \in {"sweep", "noise"} =>
     /\ res.faded <=> (res.fade_samples > 0 /\ 2 * res.fade_samples < Len(res.pre))
     /\ ~res.faded => res.mid = res.pre
     /\ res.faded => res.mid[1] = Mul(res.pre[1], Zero)

\* a noise burst whose two fades fill the buffer exactly, with a nonzero
\* first sample: the fade is skipped
C5_Witness ==
  /\ fn = "noise"
  /\ res.fade_samples > 0
  /\ 2 * res.fade_samples = Len(res.pre)
  /\ res.pre[1] # Zero
  /\ res.mid[1] # Zero

\* C6: in generate_exponential_sweep an applied fade changes only the first
\* and the last fade_samples samples: the samples at (0-based) indices
\* fade_samples .. len - fade_samples - 1 keep their value before the fade;
\* a skipped fade changes nothing.
C6_FadeFrame ==
  fn = "sweep" =>
     /\ Len(res.out) = Len(res.pre)
     /\ res.faded =>
          \A i \in 1..Len(res.pre) :
             (res.fade_samples < i /\ i <= Len(res.pre) - res.fade_samples) =>
                res.out[i] = res.pre[i]
     /\ ~res.faded => res.out = res.pre

\* a faded sweep whose last sample the fade changed and whose sample at
\* index fade_samples is nonzero
C6_Witness ==
  /\ fn = "sweep"
  /\ res.faded
  /\ res.out # res.pre
  /\ IsFinite(res.out[res.fade_samples + 1])
  /\ res.out[res.fade_samples + 1] # Zero

\* C7: two calls of generate_bandlimited_noise with the same arguments, each
\* made right after the random source was set to the same seed, return the
\* same buffer (or fail alike), whatever was called in between.
C7_SameSeedSameBuffer ==
  (fn = "noise" /\ seed_used # NoSeed /\ prev[seed_used].outcome # "none") =>
     /\ res.outcome = prev[seed_used].outcome
     /\ res.out = prev[seed_used].out

\* two seeded calls from the same seed that returned three samples or more,
\* not all alike
C7_Witness ==
  /\ fn = "noise"
  /\ seed_used # NoSeed
  /\ prev[seed_used].outcome = "returned"
  /\ Len(res.out) >= 3
  /\ \E i, j \in 1..Len(res.out) : res.out[i] # res.out[j]

Kinds(f) == [i \in 1..Len(SelectSeq(shown, LAMBDA e : e.file = f)) |->
               SelectSeq(shown, LAMBDA e : e.file = f)[i].kind]

\* C8 as stated: for every loaded recording the visualizer produces, once
\* each and in this order, the waveform, the dB spectrogram, the Welch PSD,
\* the MFCC image, the chroma image and the printed zero-crossing count.
C8_SixOutputsInOrder ==
  \A f \in 1..NumFiles :
     (vpc \in {"loop", "loaded", "done"} /\ (idx > f \/ vpc = "done")) =>
        Kinds(f) = <<"waveform", "spectrogram", "psd", "mfcc", "chroma", "zero_crossings">>

RegularCount == Cardinality({i \in 1..Len(all_entries) : all_entries[i] \in isfile})

\* C9: select_random_files raises ValueError whenever number_of_files
\* exceeds the number of regular files of the folder; for 0 <=
\* number_of_files <= that number it returns exactly number_of_files
\* pairwise distinct names, each a regular file of the folder.
C9_SelectContract ==
  vpc = "selected" =>
     /\ number_of_files > RegularCount => sel_outcome = "ValueError"
     /\ (0 <= number_of_files /\ number_of_files <= RegularCount) =>
          /\ sel_outcome = "returned"
          /\ Len(selected_files) = number_of_files
          /\ \A i, j \in 1..Len(selected_files) :
                i # j => selected_files[i] # selected_files[j]
          /\ \A i \in 1..Len(selected_files) :
                /\ selected_files[i] \in isfile
                /\ \E k \in 1..Len(all_entries) : all_entries[k] = selected_files[i]

\* two files picked from a folder that also holds a directory
C9_Witness ==
  /\ vpc = "selected"
  /\ sel_outcome = "returned"
  /\ number_of_files = 2
  /\ Len(selected_files) = 2
  /\ \E k \in 1..Len(all_entries) : all_entries[k] \notin isfile

\* C10 as stated: generate_bandlimited_noise completes without error and
\* returns int(duration*samplerate) samples for every duration >= 0, the
\* empty buffer included.
C10_NoiseAlwaysReturns ==
  fn = "noise" =>
     /\ Returned
     /\ Len(res.out) = Trunc(Product(par))

====
